---------------------------- MODULE Spec2Model ----------------------------
(***************************************************************************)
(* Model of the terrain-aware radar coverage library:                      *)
(*   include/polygon_boolean.hpp  (PolygonUtils, PolygonBoolean,           *)
(*                                 PolygonProcessor, PolygonStats)         *)
(*   include/radar_coverage.hpp   (TerrainModel, generateCoveragePolygon,  *)
(*                                 CoverageMergeManager)                   *)
(*                                                                         *)
(* Numbers.  The code computes in double precision.  The model computes in *)
(* integers and keeps every input on a grid on which the code's arithmetic *)
(* is exact: coordinates, ranges and heights are integers, a sensor range  *)
(* is a multiple of 1024 (so that the seven halvings of the range search   *)
(* and one corner-cutting pass stay integral and the shoelace sum stays    *)
(* even), azimuths are whole quarter turns (so that cos and sin are        *)
(* -1, 0 or 1).  Comparisons of quotients are done by cross-multiplying.   *)
(***************************************************************************)
EXTENDS Integers, Sequences, FiniteSets, TLC

(***************************************************************************)
(* Sequence helpers (std::vector operations used by the code)              *)
(***************************************************************************)
Reverse(s) == [i \in 1..Len(s) |-> s[Len(s) + 1 - i]]

RECURSIVE SumRange(_, _, _)
SumRange(s, lo, hi) ==
    IF lo > hi THEN 0
    ELSE IF lo = hi THEN s[lo]
    ELSE LET mid == (lo + hi) \div 2
         IN  SumRange(s, lo, mid) + SumRange(s, mid + 1, hi)

SumSeq(s) == SumRange(s, 1, Len(s))

RECURSIVE Concat(_)
Concat(ss) == IF ss = <<>> THEN <<>> ELSE Head(ss) \o Concat(Tail(ss))

Abs(x) == IF x < 0 THEN -x ELSE x

Range(s) == {s[i] : i \in 1..Len(s)}

(***************************************************************************)
(* Point2D: <<x, y>>                                                       *)
(***************************************************************************)
PtAdd(a, b) == <<a[1] + b[1], a[2] + b[2]>>
PtSub(a, b) == <<a[1] - b[1], a[2] - b[2]>>
PtScale(a, s) == <<a[1] * s, a[2] * s>>

(***************************************************************************)
(* PolygonUtils                                                            *)
(***************************************************************************)
\* the shoelace sum of signedArea before the final division by 2.0
ShoelaceSum(poly) ==
    LET n == Len(poly)
        j(i) == (i % n) + 1
    IN  SumSeq([i \in 1..n |-> poly[i][1] * poly[j(i)][2] - poly[j(i)][1] * poly[i][2]])

\* a coordinate that is not a number (a double's quiet NaN)
NaN == "NaN"

IsNaN(v) == ToString(v) = ToString(NaN)

HasNaN(poly) == \E i \in 1..Len(poly) : IsNaN(poly[i][1]) \/ IsNaN(poly[i][2])

\* every coordinate is a factor of two terms of the sum, so one NaN
\* coordinate makes the sum NaN
signedArea(poly) ==
    IF Len(poly) < 3 THEN 0
    ELSE IF HasNaN(poly) THEN NaN
    ELSE ShoelaceSum(poly) \div 2

area(poly) == Abs(signedArea(poly))

\* isCounterClockwise with its comparison turned round
isCounterClockwiseTurned(poly) == signedArea(poly) < 0

\* NaN > 0 is false
isCounterClockwise(poly) == ~IsNaN(signedArea(poly)) /\ signedArea(poly) > 0

\* ensureOrientation with its test inverted
ensureOrientationFlipped(poly, ccw) ==
    IF isCounterClockwise(poly) = ccw THEN Reverse(poly) ELSE poly

ensureOrientation(poly, ccw) ==
    IF isCounterClockwise(poly) = ccw THEN poly ELSE Reverse(poly)

\* one edge (poly[i], poly[j]) of the ray-casting loop: does the horizontal
\* ray from pt to +x cross it?   pt.x < (xj - xi) * (pt.y - yi) / (yj - yi) + xi
\* is compared after multiplying by (yj - yi), whose sign is known.
RayCrosses(pt, pi, pj) ==
    /\ (pi[2] > pt[2]) # (pj[2] > pt[2])
    /\ LET dy == pj[2] - pi[2]
           lhs == (pt[1] - pi[1]) * dy
           rhs == (pj[1] - pi[1]) * (pt[2] - pi[2])
       IN  IF dy > 0 THEN lhs < rhs ELSE lhs > rhs

pointInPolygon(pt, poly) ==
    LET n == Len(poly)
        prev(i) == IF i = 1 THEN n ELSE i - 1
        crossings == {i \in 1..n : RayCrosses(pt, poly[i], poly[prev(i)])}
    IN  Cardinality(crossings) % 2 = 1


(***************************************************************************)
(* The clipping engine (Clipper2: ClipperD::Execute with FillRule::NonZero)*)
(* is an external library.  It is modelled from its contract: a point      *)
(* belongs to a path set when its winding number around it is nonzero, the *)
(* result is the flat list of contours that separate filled from unfilled  *)
(* area, an outer contour is returned counter-clockwise and a hole         *)
(* clockwise.  The model is exact for laminar input (any two input curves  *)
(* are the same curve or share no point), where the winding number of a    *)
(* face is the sum of the orientations of the curves around it.            *)
(***************************************************************************)
Orient(a, b, c) ==
    LET v == (b[1] - a[1]) * (c[2] - a[2]) - (b[2] - a[2]) * (c[1] - a[1])
    IN  IF v > 0 THEN 1 ELSE IF v < 0 THEN -1 ELSE 0

OnSegment(a, b, p) ==
    /\ Orient(a, b, p) = 0
    /\ p[1] >= (IF a[1] < b[1] THEN a[1] ELSE b[1])
    /\ p[1] <= (IF a[1] < b[1] THEN b[1] ELSE a[1])
    /\ p[2] >= (IF a[2] < b[2] THEN a[2] ELSE b[2])
    /\ p[2] <= (IF a[2] < b[2] THEN b[2] ELSE a[2])

SegmentsMeet(a, b, c, d) ==
    \/ Orient(a, b, c) # Orient(a, b, d) /\ Orient(c, d, a) # Orient(c, d, b)
    \/ OnSegment(a, b, c) \/ OnSegment(a, b, d)
    \/ OnSegment(c, d, a) \/ OnSegment(c, d, b)

CurvesMeet(p, q) ==
    \E i \in 1..Len(p), k \in 1..Len(q) :
        SegmentsMeet(p[i], p[(i % Len(p)) + 1], q[k], q[(k % Len(q)) + 1])

\* the curve of a path, whichever way the path runs along it
Curve(path) == IF signedArea(path) > 0 THEN path ELSE Reverse(path)

Winding(path) == IF signedArea(path) > 0 THEN 1 ELSE -1

\* zero-area paths enclose nothing and contribute no contour
Enclosing(paths) == SelectSeq(paths, LAMBDA p : signedArea(p) # 0)

Laminar(paths) ==
    \A i, k \in 1..Len(paths) :
        (signedArea(paths[i]) # 0 /\ signedArea(paths[k]) # 0
            /\ Curve(paths[i]) # Curve(paths[k]))
        => ~CurvesMeet(paths[i], paths[k])

RECURSIVE Distinct(_)
Distinct(s) ==
    IF s = <<>> THEN <<>>
    ELSE LET rest == Distinct(SelectSeq(Tail(s), LAMBDA x : x # Head(s)))
         IN  <<Head(s)>> \o rest

\* winding number contributed by the copies of curve c in paths
CurveWinding(c, paths) ==
    SumSeq([i \in 1..Len(paths) |->
               IF signedArea(paths[i]) # 0 /\ Curve(paths[i]) = c
               THEN Winding(paths[i]) ELSE 0])

\* winding number of paths just outside curve c
WindingOutside(c, curves, paths) ==
    SumSeq([i \in 1..Len(curves) |->
               IF curves[i] # c /\ pointInPolygon(c[1], curves[i])
               THEN CurveWinding(curves[i], paths) ELSE 0])

Filled(clipType, ws, wc) ==
    CASE clipType = "Union"        -> ws # 0 \/ wc # 0
      [] clipType = "Intersection" -> ws # 0 /\ wc # 0
      [] clipType = "Difference"   -> ws # 0 /\ wc = 0
      [] clipType = "Xor"          -> (ws # 0) # (wc # 0)

ClipperExecute(clipType, subjects, clips) ==
    LET all    == Enclosing(subjects \o clips)
        curves == Distinct([i \in 1..Len(all) |-> Curve(all[i])])
        outS(c) == WindingOutside(c, curves, subjects)
        outC(c) == WindingOutside(c, curves, clips)
        inS(c)  == outS(c) + CurveWinding(c, subjects)
        inC(c)  == outC(c) + CurveWinding(c, clips)
        fin(c)  == Filled(clipType, inS(c), inC(c))
        fout(c) == Filled(clipType, outS(c), outC(c))
        kept    == SelectSeq(curves, LAMBDA c : fin(c) # fout(c))
    IN  [i \in 1..Len(kept) |-> IF fin(kept[i]) THEN kept[i] ELSE Reverse(kept[i])]

(***************************************************************************)
(* PolygonBoolean                                                          *)
(***************************************************************************)
\* classifyResult without the loop that attaches holes
RegionOfWithoutHoles(outerIdx, holeIndices, allPolygons) ==
    [outer |-> allPolygons[outerIdx], holes |-> <<>>]

\* RegionOf storing each hole with the winding it has in the contour list
RegionOfKeepsHoleWinding(outerIdx, holeIndices, allPolygons) ==
    LET outer == allPolygons[outerIdx]
        mine  == SelectSeq(holeIndices,
                     LAMBDA h : /\ allPolygons[h] # <<>>
                                /\ pointInPolygon(allPolygons[h][1], outer))
    IN  [outer |-> outer,
         holes |-> [k \in 1..Len(mine) |-> allPolygons[mine[k]]]]

\* a PolygonWithHoles as classifyResult builds it for one outer index
RegionOf(outerIdx, holeIndices, allPolygons) ==
    LET outer == allPolygons[outerIdx]
        mine  == SelectSeq(holeIndices,
                     LAMBDA h : /\ allPolygons[h] # <<>>
                                /\ pointInPolygon(allPolygons[h][1], outer))
    IN  [outer |-> outer,
         holes |-> [k \in 1..Len(mine) |-> Reverse(allPolygons[mine[k]])]]

\* classifyResult with the signs of its area tests exchanged
classifyResultSignsExchanged(paths) ==
    IF paths = <<>> THEN <<>>
    ELSE
    LET allPolygons == paths
        areas == [i \in 1..Len(paths) |-> signedArea(allPolygons[i])]
        idx == [i \in 1..Len(paths) |-> i]
        outerIndices == SelectSeq(idx, LAMBDA i : areas[i] < 0)
        holeIndices  == SelectSeq(idx, LAMBDA i : areas[i] > 0)
    IN  [k \in 1..Len(outerIndices) |->
            RegionOf(outerIndices[k], holeIndices, allPolygons)]

classifyResult(paths) ==
    IF paths = <<>> THEN <<>>
    ELSE
    LET allPolygons == paths
        areas == [i \in 1..Len(paths) |-> signedArea(allPolygons[i])]
        idx == [i \in 1..Len(paths) |-> i]
        outerIndices == SelectSeq(idx, LAMBDA i : areas[i] > 0)
        holeIndices  == SelectSeq(idx, LAMBDA i : areas[i] < 0)
    IN  [k \in 1..Len(outerIndices) |->
            RegionOf(outerIndices[k], holeIndices, allPolygons)]

unionAll(polygons) ==
    IF polygons = <<>> THEN <<>>
    ELSE IF Len(polygons) = 1
    THEN << [outer |-> ensureOrientation(polygons[1], TRUE), holes |-> <<>>] >>
    ELSE classifyResult(ClipperExecute("Union", polygons, <<>>))

unionTwo(a, b) == unionAll(<<a, b>>)

intersection(a, b) == classifyResult(ClipperExecute("Intersection", <<a>>, <<b>>))

difference(a, b) == classifyResult(ClipperExecute("Difference", <<a>>, <<b>>))

xorOp(a, b) == classifyResult(ClipperExecute("Xor", <<a>>, <<b>>))

(***************************************************************************)
(* PolygonProcessor                                                        *)
(***************************************************************************)
\* Clipper2Lib::SimplifyPaths is an external library function.  Its result
\* is modelled as any vertex reduction: the library returns, for every path,
\* the vertices at the positions in lib.keep, or no path at all (lib.none).
\* The caller draws lib from every possible reduction.
KeepVertices(path, keep) ==
    LET idx == [i \in 1..Len(path) |-> i]
        sel == SelectSeq(idx, LAMBDA i : i \in keep)
    IN  [k \in 1..Len(sel) |-> path[sel[k]]]

SimplifyPaths(paths, epsilon, lib) ==
    IF lib.none THEN <<>>
    ELSE [i \in 1..Len(paths) |-> KeepVertices(paths[i], lib.keep)]

\* simplify without the fallback to the original polygon
simplifyWithoutFallback(poly, epsilon, lib) ==
    IF Len(poly) < 3 \/ epsilon <= 0 THEN poly
    ELSE LET simplified == SimplifyPaths(<<poly>>, epsilon, lib)
         IN  IF simplified = <<>> THEN poly ELSE simplified[1]

simplify(poly, epsilon, lib) ==
    IF Len(poly) < 3 \/ epsilon <= 0 THEN poly
    ELSE LET simplified == SimplifyPaths(<<poly>>, epsilon, lib)
         IN  IF simplified = <<>> \/ Len(simplified[1]) < 3
             THEN poly
             ELSE simplified[1]

\* a Chaikin pass with the weights of its two points exchanged
ChaikinPassWeightsExchanged(result) ==
    LET n == Len(result)
        p0(i) == result[i]
        p1(i) == result[(i % n) + 1]
        q(i) == << (p0(i)[1] + 3 * p1(i)[1]) \div 4, (p0(i)[2] + 3 * p1(i)[2]) \div 4 >>
        r(i) == << (3 * p0(i)[1] + p1(i)[1]) \div 4, (3 * p0(i)[2] + p1(i)[2]) \div 4 >>
    IN  [k \in 1..(2 * n) |-> IF k % 2 = 1 THEN q((k + 1) \div 2) ELSE r(k \div 2)]

\* one Chaikin pass: p0 * 0.75 + p1 * 0.25 and p0 * 0.25 + p1 * 0.75 per edge
\* (exact when the coordinates are multiples of 4)
ChaikinPass(result) ==
    LET n == Len(result)
        p0(i) == result[i]
        p1(i) == result[(i % n) + 1]
        q(i) == << (3 * p0(i)[1] + p1(i)[1]) \div 4, (3 * p0(i)[2] + p1(i)[2]) \div 4 >>
        r(i) == << (p0(i)[1] + 3 * p1(i)[1]) \div 4, (p0(i)[2] + 3 * p1(i)[2]) \div 4 >>
    IN  [k \in 1..(2 * n) |-> IF k % 2 = 1 THEN q((k + 1) \div 2) ELSE r(k \div 2)]

RECURSIVE SmoothLoop(_, _)
SmoothLoop(result, iter) ==
    IF iter <= 0 THEN result ELSE SmoothLoop(ChaikinPass(result), iter - 1)

smooth(poly, iterations) ==
    IF Len(poly) < 3 \/ iterations <= 0 THEN poly
    ELSE SmoothLoop(poly, iterations)

simplifyAll(mp, epsilon, lib) ==
    [i \in 1..Len(mp) |->
        [outer |-> simplify(mp[i].outer, epsilon, lib),
         holes |-> [h \in 1..Len(mp[i].holes) |-> simplify(mp[i].holes[h], epsilon, lib)]]]

\* smoothAll smoothing the outer boundaries only and leaving the holes out
smoothAllOuterOnly(mp, iterations) ==
    [i \in 1..Len(mp) |->
        [outer |-> smooth(mp[i].outer, iterations), holes |-> <<>>]]

smoothAll(mp, iterations) ==
    [i \in 1..Len(mp) |->
        [outer |-> smooth(mp[i].outer, iterations),
         holes |-> [h \in 1..Len(mp[i].holes) |-> smooth(mp[i].holes[h], iterations)]]]

(***************************************************************************)
(* PolygonStats                                                            *)
(***************************************************************************)
RECURSIVE ISqrtIn(_, _, _)
ISqrtIn(n, lo, hi) ==
    IF lo >= hi THEN lo
    ELSE LET mid == (lo + hi + 1) \div 2
         IN  IF mid * mid <= n THEN ISqrtIn(n, mid, hi) ELSE ISqrtIn(n, lo, mid - 1)

\* Point2D::length: sqrt(x * x + y * y), exact for axis-parallel vectors and
\* rounded down to a whole unit otherwise
length(p) ==
    IF p[2] = 0 THEN Abs(p[1])
    ELSE IF p[1] = 0 THEN Abs(p[2])
    ELSE ISqrtIn(p[1] * p[1] + p[2] * p[2], 0, Abs(p[1]) + Abs(p[2]))

perimeter(poly) ==
    IF Len(poly) < 2 THEN 0
    ELSE LET n == Len(poly)
         IN  SumSeq([i \in 1..n |-> length(PtSub(poly[(i % n) + 1], poly[i]))])

\* compute adding the hole areas instead of subtracting them
PolygonStatsComputeAddsHoles(mp) ==
    LET holeArea(pwh) == SumSeq([h \in 1..Len(pwh.holes) |-> area(pwh.holes[h])])
        holePerim(pwh) == SumSeq([h \in 1..Len(pwh.holes) |-> perimeter(pwh.holes[h])])
    IN  [regionCount    |-> Len(mp),
         totalHoleCount |-> SumSeq([i \in 1..Len(mp) |-> Len(mp[i].holes)]),
         totalArea      |-> SumSeq([i \in 1..Len(mp) |-> area(mp[i].outer) + holeArea(mp[i])]),
         totalPerimeter |-> SumSeq([i \in 1..Len(mp) |->
                                       holePerim(mp[i]) + perimeter(mp[i].outer)])]

PolygonStatsCompute(mp) ==
    LET holeArea(pwh) == SumSeq([h \in 1..Len(pwh.holes) |-> area(pwh.holes[h])])
        holePerim(pwh) == SumSeq([h \in 1..Len(pwh.holes) |-> perimeter(pwh.holes[h])])
    IN  [regionCount    |-> Len(mp),
         totalHoleCount |-> SumSeq([i \in 1..Len(mp) |-> Len(mp[i].holes)]),
         totalArea      |-> SumSeq([i \in 1..Len(mp) |-> area(mp[i].outer) - holeArea(mp[i])]),
         totalPerimeter |-> SumSeq([i \in 1..Len(mp) |->
                                       holePerim(mp[i]) + perimeter(mp[i].outer)])]

(***************************************************************************)
(* TerrainObstacle, TerrainModel                                           *)
(* A terrain is [obstacles |-> sequence of [center, rx, ry, height],       *)
(*               custom_elevation |-> name of the installed function or    *)
(*               "none" for the empty std::function].                      *)
(* A sample position is the rational point pn / den.                       *)
(***************************************************************************)
earth_radius == 6371000

\* TerrainObstacle::getElevationAt.  Outside the ellipse (distSq >= 1) the
\* contribution is 0.  Inside it is height * exp(-3 * distSq), a value in
\* (height / e^3, height]; the model returns the lower bound height / 21
\* (e^3 < 21).  Obstacle heights are chosen so that this bound is above
\* every line-of-sight height, which makes the comparison in
\* isLineOfSightBlocked come out as in the code.
getElevationAt(obs, pn, den) ==
    LET dxn == pn[1] - obs.center[1] * den
        dyn == pn[2] - obs.center[2] * den
    IN  IF Abs(dxn) >= den * obs.rx \/ Abs(dyn) >= den * obs.ry THEN 0
        ELSE IF dxn * dxn * obs.ry * obs.ry + dyn * dyn * obs.rx * obs.rx
                    >= (den * obs.rx * obs.ry) * (den * obs.rx * obs.ry)
             THEN 0
             ELSE obs.height \div 21

\* the elevation functions a caller installs with setElevationFunction
customElevation(name, pn, den) ==
    CASE name = "ridge" ->
            IF pn[2] >= 512 * den /\ pn[2] < 2048 * den THEN 1000 ELSE 0
      [] OTHER -> 0

Max(a, b) == IF a > b THEN a ELSE b

RECURSIVE MaxObstacleElevation(_, _, _, _)
MaxObstacleElevation(h, obstacles, pn, den) ==
    IF obstacles = <<>> THEN h
    ELSE MaxObstacleElevation(Max(h, getElevationAt(Head(obstacles), pn, den)),
                              Tail(obstacles), pn, den)

getElevation(terrain, pn, den) ==
    LET h0 == IF terrain.custom_elevation # "none"
              THEN customElevation(terrain.custom_elevation, pn, den)
              ELSE 0
    IN  MaxObstacleElevation(h0, terrain.obstacles, pn, den)

\* terrainH > effectiveLos at sample i of numSamples, where
\*   losHeight    = radarHeight * (1 - i/n) + targetHeight * (i/n)
\*   effectiveLos = losHeight - ((i/n * totalDist)^2 / (2 * earth_radius)) * 0.5
\* multiplied through by 4 * earth_radius * n
SampleBlocked(terrainH, radarHeight, targetHeight, totalDist, i, numSamples) ==
    LET a == numSamples * terrainH
               - (radarHeight * (numSamples - i) + targetHeight * i)
        u == i * totalDist
    IN  \/ a > 0
        \/ a = 0 /\ u # 0
        \/ a < 0 /\ u # 0 /\ (u * u - 1) \div (4 * earth_radius * numSamples) >= -a

\* the sample loop, i = 1 .. numSamples - 1, returning at the first blocked sample
RECURSIVE SampleLoop(_, _, _, _, _, _, _, _)
SampleLoop(terrain, radarPos, radarHeight, delta, targetHeight, totalDist, i, numSamples) ==
    IF ~(i < numSamples) THEN FALSE
    ELSE IF SampleBlocked(
                getElevation(terrain,
                             PtAdd(PtScale(radarPos, numSamples), PtScale(delta, i)),
                             numSamples),
                radarHeight, targetHeight, totalDist, i, numSamples)
         THEN TRUE
         ELSE SampleLoop(terrain, radarPos, radarHeight, delta, targetHeight, totalDist,
                         i + 1, numSamples)

isLineOfSightBlocked(terrain, radarPos, radarHeight, targetPos, targetHeight, numSamples) ==
    IF length(PtSub(targetPos, radarPos)) = 0 THEN FALSE
    ELSE SampleLoop(terrain, radarPos, radarHeight, PtSub(targetPos, radarPos),
                    targetHeight, length(PtSub(targetPos, radarPos)), 1, numSamples)

\* the number of samples the loop has tested when it is left
RECURSIVE SamplesTested(_, _, _, _, _, _, _, _)
SamplesTested(terrain, radarPos, radarHeight, delta, targetHeight, totalDist, i, numSamples) ==
    IF ~(i < numSamples) THEN 0
    ELSE IF SampleBlocked(
                getElevation(terrain,
                             PtAdd(PtScale(radarPos, numSamples), PtScale(delta, i)),
                             numSamples),
                radarHeight, targetHeight, totalDist, i, numSamples)
         THEN 1
         ELSE 1 + SamplesTested(terrain, radarPos, radarHeight, delta, targetHeight,
                                totalDist, i + 1, numSamples)

\* one call of isLineOfSightBlocked: the value returned and the number of
\* points whose elevation was tested
isLineOfSightBlockedRun(terrain, radarPos, radarHeight, targetPos, targetHeight, numSamples) ==
    [flag   |-> isLineOfSightBlocked(terrain, radarPos, radarHeight, targetPos,
                                     targetHeight, numSamples),
     tested |-> IF length(PtSub(targetPos, radarPos)) = 0 THEN 0
                ELSE SamplesTested(terrain, radarPos, radarHeight,
                                   PtSub(targetPos, radarPos), targetHeight,
                                   length(PtSub(targetPos, radarPos)), 1, numSamples)]

\* (cos, sin) of an azimuth given in quarter turns
Direction(azimuth) ==
    CASE azimuth % 4 = 0 -> <<1, 0>>
      [] azimuth % 4 = 1 -> <<0, 1>>
      [] azimuth % 4 = 2 -> <<-1, 0>>
      [] azimuth % 4 = 3 -> <<0, -1>>

DefaultSamples == 40

\* (lo + hi) / 2.0 on the grid of representable ranges: exact when lo + hi
\* is even, rounded to the even neighbour otherwise (what the division does
\* where the doubles are at their finest, ranges being whole multiples of
\* the smallest positive double there)
Half(x) ==
    IF x % 2 = 0 THEN x \div 2
    ELSE IF (x \div 2) % 2 = 0 THEN x \div 2 ELSE x \div 2 + 1

\* the while loop with its two assignments exchanged: hi follows an
\* unblocked midpoint and lo a blocked one
RECURSIVE RangeSearchBranchesExchanged(_, _, _, _, _, _, _, _, _)
RangeSearchBranchesExchanged(terrain, radarPos, radarHeight, dir, maxRange, targetHeight,
                             lo, hi, n) ==
    IF ~(100 * (hi - lo) > maxRange)
    THEN [range |-> lo, halvings |-> n, returns |-> TRUE]
    ELSE IF ~isLineOfSightBlocked(terrain, radarPos, radarHeight,
                                  PtAdd(radarPos, PtScale(dir, Half(lo + hi))),
                                  targetHeight, DefaultSamples)
         THEN IF Half(lo + hi) = hi
              THEN [range |-> lo, halvings |-> n, returns |-> FALSE]
              ELSE RangeSearchBranchesExchanged(terrain, radarPos, radarHeight, dir, maxRange,
                                                targetHeight, lo, Half(lo + hi), n + 1)
         ELSE IF Half(lo + hi) = lo
              THEN [range |-> lo, halvings |-> n, returns |-> FALSE]
              ELSE RangeSearchBranchesExchanged(terrain, radarPos, radarHeight, dir, maxRange,
                                                targetHeight, Half(lo + hi), hi, n + 1)

\* the while loop of computeMaxVisibleRange after n halvings.  The loop
\* returns lo once hi - lo <= maxRange * 0.01; an iteration that leaves lo
\* and hi as they were repeats for ever, and the call never returns.
RECURSIVE RangeSearch(_, _, _, _, _, _, _, _, _)
RangeSearch(terrain, radarPos, radarHeight, dir, maxRange, targetHeight, lo, hi, n) ==
    IF ~(100 * (hi - lo) > maxRange)
    THEN [range |-> lo, halvings |-> n, returns |-> TRUE]
    ELSE IF isLineOfSightBlocked(terrain, radarPos, radarHeight,
                                 PtAdd(radarPos, PtScale(dir, Half(lo + hi))),
                                 targetHeight, DefaultSamples)
         THEN IF Half(lo + hi) = hi
              THEN [range |-> lo, halvings |-> n, returns |-> FALSE]
              ELSE RangeSearch(terrain, radarPos, radarHeight, dir, maxRange, targetHeight,
                               lo, Half(lo + hi), n + 1)
         ELSE IF Half(lo + hi) = lo
              THEN [range |-> lo, halvings |-> n, returns |-> FALSE]
              ELSE RangeSearch(terrain, radarPos, radarHeight, dir, maxRange, targetHeight,
                               Half(lo + hi), hi, n + 1)

\* computeMaxVisibleRange with the two assignments of its loop exchanged
computeMaxVisibleRangeRunExchanged(terrain, radarPos, radarHeight, azimuth, maxRange, targetHeight) ==
    RangeSearchBranchesExchanged(terrain, radarPos, radarHeight, Direction(azimuth), maxRange,
                                 targetHeight, 0, maxRange, 0)

\* one call of computeMaxVisibleRange: the value returned, the halvings made
\* and whether the call returns at all
computeMaxVisibleRangeRun(terrain, radarPos, radarHeight, azimuth, maxRange, targetHeight) ==
    RangeSearch(terrain, radarPos, radarHeight, Direction(azimuth), maxRange, targetHeight,
                0, maxRange, 0)

computeMaxVisibleRange(terrain, radarPos, radarHeight, azimuth, maxRange, targetHeight) ==
    computeMaxVisibleRangeRun(terrain, radarPos, radarHeight, azimuth, maxRange,
                              targetHeight).range

(***************************************************************************)
(* RadarParams: [id, position, range, height, azimuthStart, azimuthEnd],   *)
(* azimuths in quarter turns (2 * M_PI is 4)                               *)
(***************************************************************************)
isOmnidirectional(radar) == radar.azimuthEnd - radar.azimuthStart - 4 = 0

\* azimuth of ray i: azimuthStart + i * azimuthStep, azimuthStep = azimuthSpan / numRays
RayAzimuth(radar, i, rays) ==
    radar.azimuthStart + (i * (radar.azimuthEnd - radar.azimuthStart)) \div rays

RayVertex(radar, terrain, i, rays) ==
    PtAdd(radar.position,
          PtScale(Direction(RayAzimuth(radar, i, rays)),
                  computeMaxVisibleRange(terrain, radar.position, radar.height,
                                         RayAzimuth(radar, i, rays), radar.range, 0)))

\* the ray loop, i = lo .. hi - 1
RECURSIVE RayLoop(_, _, _, _, _)
RayLoop(radar, terrain, lo, hi, rays) ==
    IF ~(lo < hi) THEN <<>>
    ELSE IF hi - lo = 1 THEN <<RayVertex(radar, terrain, lo, rays)>>
    ELSE RayLoop(radar, terrain, lo, (lo + hi) \div 2, rays)
         \o RayLoop(radar, terrain, (lo + hi) \div 2, hi, rays)

\* generateCoveragePolygon closing every polygon with the sensor position
generateCoveragePolygonAlwaysCloses(radar, terrain, rays) ==
    Append(RayLoop(radar, terrain, 0, rays, rays), radar.position)

generateCoveragePolygon(radar, terrain, rays) ==
    IF ~isOmnidirectional(radar)
    THEN Append(RayLoop(radar, terrain, 0, rays, rays), radar.position)
    ELSE RayLoop(radar, terrain, 0, rays, rays)

(***************************************************************************)
(* Bounds and input sets                                                   *)
(***************************************************************************)
MaxRadars == 2
MaxObstacles == 1
\* the pass counter stops counting here
MaxPasses == 2

RadarChoices ==
    { [id |-> 1, position |-> <<0, 0>>, range |-> 1024, height |-> 10,
       azimuthStart |-> 0, azimuthEnd |-> 4],
      [id |-> 2, position |-> <<4096, 0>>, range |-> 1024, height |-> 10,
       azimuthStart |-> 4, azimuthEnd |-> 0] }

RadarIds == {1, 2, 3}

ObstacleChoices ==
    { [center |-> <<304, 0>>, rx |-> 16, ry |-> 16, height |-> 1000] }

ElevationFunctions == {"none", "ridge"}

\* the constructor's values of numRays_, simplifyEpsilon_ and smoothIterations_
DefaultNumRays == 72
DefaultSimplifyEpsilon == 5
DefaultSmoothIterations == 1

\* the arguments of setNumRays, setSimplifyEpsilon and setSmoothIterations
NumRaysChoices == {4}
EpsilonChoices == {0}
SmoothChoices == {0}

\* what SimplifyPaths may do to the paths of one recomputation pass
ManagerReductions ==
    { [none |-> FALSE, keep |-> 1..1000],
      [none |-> FALSE, keep |-> 2..1000] }

(***************************************************************************)
(* CoverageMergeManager                                                    *)
(***************************************************************************)
VARIABLES
    terrain_,               \* TerrainModel: obstacles_ and custom_elevation_
    radars_,
    individualCoverages_,
    mergedCoverage_,
    numRays_,
    simplifyEpsilon_,
    smoothIterations_,
    dirty_,
    ret,                    \* value the last call returned (NoRet: a void call)
    steps,                  \* pipeline statements the last call executed
    passes,                 \* recomputation passes since the last manager mutation
    fn, arg, lib, res       \* application of a library function to an input

mgrVars == <<terrain_, radars_, individualCoverages_, mergedCoverage_, numRays_,
             simplifyEpsilon_, smoothIterations_, dirty_, ret, steps, passes>>
fnVars == <<fn, arg, lib, res>>
vars == <<terrain_, radars_, individualCoverages_, mergedCoverage_, numRays_,
          simplifyEpsilon_, smoothIterations_, dirty_, ret, steps, passes,
          fn, arg, lib, res>>

NoRet == [kind |-> "none"]
NoLib == [none |-> TRUE, keep |-> {}]

MgrInit ==
    /\ terrain_ = [obstacles |-> <<>>, custom_elevation |-> "none"]
    /\ radars_ = <<>>
    /\ individualCoverages_ = <<>>
    /\ mergedCoverage_ = <<>>
    /\ numRays_ = DefaultNumRays
    /\ simplifyEpsilon_ = DefaultSimplifyEpsilon
    /\ smoothIterations_ = DefaultSmoothIterations
    /\ dirty_ = TRUE
    /\ ret = NoRet
    /\ steps = <<>>
    /\ passes = 0

FnIdle ==
    /\ fn = "none"
    /\ arg = <<>>
    /\ lib = NoLib
    /\ res = <<>>

Init == MgrInit /\ FnIdle

\* ---- TerrainModel mutators, reached through terrain() ----
addObstacle ==
    /\ Len(terrain_.obstacles) < MaxObstacles
    /\ \E obs \in ObstacleChoices :
         terrain_' = [terrain_ EXCEPT !.obstacles = Append(@, obs)]
    /\ ret' = NoRet
    /\ steps' = <<>>
    /\ UNCHANGED <<radars_, individualCoverages_, mergedCoverage_, numRays_,
                   simplifyEpsilon_, smoothIterations_, dirty_, passes>>
    /\ UNCHANGED fnVars

clearObstacles ==
    /\ terrain_' = [terrain_ EXCEPT !.obstacles = <<>>]
    /\ ret' = NoRet
    /\ steps' = <<>>
    /\ UNCHANGED <<radars_, individualCoverages_, mergedCoverage_, numRays_,
                   simplifyEpsilon_, smoothIterations_, dirty_, passes>>
    /\ UNCHANGED fnVars

setElevationFunction ==
    /\ \E func \in ElevationFunctions :
         terrain_' = [terrain_ EXCEPT !.custom_elevation = func]
    /\ ret' = NoRet
    /\ steps' = <<>>
    /\ UNCHANGED <<radars_, individualCoverages_, mergedCoverage_, numRays_,
                   simplifyEpsilon_, smoothIterations_, dirty_, passes>>
    /\ UNCHANGED fnVars

\* addRadar without its dirty_ = true
addRadarKeepsClean ==
    /\ Len(radars_) < MaxRadars
    /\ \E radar \in RadarChoices : radars_' = Append(radars_, radar)
    /\ ret' = NoRet
    /\ steps' = <<>>
    /\ UNCHANGED <<terrain_, individualCoverages_, mergedCoverage_, numRays_,
                   simplifyEpsilon_, smoothIterations_, dirty_, passes>>
    /\ UNCHANGED fnVars

\* ---- CoverageMergeManager mutators ----
addRadar ==
    /\ Len(radars_) < MaxRadars
    /\ \E radar \in RadarChoices : radars_' = Append(radars_, radar)
    /\ dirty_' = TRUE
    /\ ret' = NoRet
    /\ steps' = <<>>
    /\ passes' = 0
    /\ UNCHANGED <<terrain_, individualCoverages_, mergedCoverage_, numRays_,
                   simplifyEpsilon_, smoothIterations_>>
    /\ UNCHANGED fnVars

\* index of the first radar with this id, 0 when there is none
FirstWithId(radars, id) ==
    IF \E i \in 1..Len(radars) : radars[i].id = id
    THEN CHOOSE i \in 1..Len(radars) :
            /\ radars[i].id = id
            /\ \A k \in 1..(i - 1) : radars[k].id # id
    ELSE 0

\* updateRadar setting the dirty flag whether or not a radar has the id
updateRadarWithAlwaysDirty(id, params) ==
    /\ LET i == FirstWithId(radars_, id)
       IN  IF i # 0
           THEN radars_' = [radars_ EXCEPT ![i] = params]
           ELSE UNCHANGED radars_
    /\ dirty_' = TRUE
    /\ passes' = 0
    /\ ret' = NoRet
    /\ steps' = <<>>
    /\ UNCHANGED <<terrain_, individualCoverages_, mergedCoverage_, numRays_,
                   simplifyEpsilon_, smoothIterations_>>
    /\ UNCHANGED fnVars

\* updateRadar(id, params)
updateRadarWith(id, params) ==
    /\ LET i == FirstWithId(radars_, id)
       IN  IF i # 0
           THEN /\ radars_' = [radars_ EXCEPT ![i] = params]
                /\ dirty_' = TRUE
                /\ passes' = 0
           ELSE UNCHANGED <<radars_, dirty_, passes>>
    /\ ret' = NoRet
    /\ steps' = <<>>
    /\ UNCHANGED <<terrain_, individualCoverages_, mergedCoverage_, numRays_,
                   simplifyEpsilon_, smoothIterations_>>
    /\ UNCHANGED fnVars

updateRadar == \E id \in RadarIds, params \in RadarChoices : updateRadarWith(id, params)

removeRadar ==
    /\ \E id \in RadarIds :
         radars_' = SelectSeq(radars_, LAMBDA r : r.id # id)
    /\ dirty_' = TRUE
    /\ ret' = NoRet
    /\ steps' = <<>>
    /\ passes' = 0
    /\ UNCHANGED <<terrain_, individualCoverages_, mergedCoverage_, numRays_,
                   simplifyEpsilon_, smoothIterations_>>
    /\ UNCHANGED fnVars

clearRadars ==
    /\ radars_' = <<>>
    /\ dirty_' = TRUE
    /\ ret' = NoRet
    /\ steps' = <<>>
    /\ passes' = 0
    /\ UNCHANGED <<terrain_, individualCoverages_, mergedCoverage_, numRays_,
                   simplifyEpsilon_, smoothIterations_>>
    /\ UNCHANGED fnVars

\* setNumRays dropping the caches it invalidates
setNumRaysClearsCaches ==
    /\ \E n \in NumRaysChoices : numRays_' = n
    /\ individualCoverages_' = <<>>
    /\ mergedCoverage_' = <<>>
    /\ dirty_' = TRUE
    /\ ret' = NoRet
    /\ steps' = <<>>
    /\ passes' = 0
    /\ UNCHANGED <<terrain_, radars_, simplifyEpsilon_, smoothIterations_>>
    /\ UNCHANGED fnVars

setNumRays ==
    /\ \E n \in NumRaysChoices : numRays_' = n
    /\ dirty_' = TRUE
    /\ ret' = NoRet
    /\ steps' = <<>>
    /\ passes' = 0
    /\ UNCHANGED <<terrain_, radars_, individualCoverages_, mergedCoverage_,
                   simplifyEpsilon_, smoothIterations_>>
    /\ UNCHANGED fnVars

setSimplifyEpsilon ==
    /\ \E eps \in EpsilonChoices : simplifyEpsilon_' = eps
    /\ dirty_' = TRUE
    /\ ret' = NoRet
    /\ steps' = <<>>
    /\ passes' = 0
    /\ UNCHANGED <<terrain_, radars_, individualCoverages_, mergedCoverage_,
                   numRays_, smoothIterations_>>
    /\ UNCHANGED fnVars

setSmoothIterations ==
    /\ \E n \in SmoothChoices : smoothIterations_' = n
    /\ dirty_' = TRUE
    /\ ret' = NoRet
    /\ steps' = <<>>
    /\ passes' = 0
    /\ UNCHANGED <<terrain_, radars_, individualCoverages_, mergedCoverage_,
                   numRays_, simplifyEpsilon_>>
    /\ UNCHANGED fnVars

invalidate ==
    /\ dirty_' = TRUE
    /\ ret' = NoRet
    /\ steps' = <<>>
    /\ passes' = 0
    /\ UNCHANGED <<terrain_, radars_, individualCoverages_, mergedCoverage_,
                   numRays_, simplifyEpsilon_, smoothIterations_>>
    /\ UNCHANGED fnVars

\* ---- updateIfDirty ----
\* generateCoveragePolygon evaluated once for every sensor, terrain and ray
\* count of the model (a table of its values; the loop below looks them up)
RECURSIVE SeqsUpTo(_, _)
SeqsUpTo(S, n) ==
    IF n = 0 THEN {<<>>}
    ELSE LET shorter == SeqsUpTo(S, n - 1)
         IN  shorter \cup {Append(q, x) : q \in shorter, x \in S}

Terrains ==
    {[obstacles |-> o, custom_elevation |-> f] :
        o \in SeqsUpTo(ObstacleChoices, MaxObstacles), f \in ElevationFunctions}

RECURSIVE CoverageTable(_, _)
CoverageTable(keys, started) ==
    IF ~started
    THEN CoverageTable(RadarChoices \X Terrains \X ({DefaultNumRays} \cup NumRaysChoices), TRUE)
    ELSE IF keys = {} THEN <<>>
    ELSE LET k == CHOOSE k \in keys : TRUE
         IN  << [key |-> k,
                 polygon |-> generateCoveragePolygon(k[1], k[2], k[3]) \o <<>>] >>
             \o CoverageTable(keys \ {k}, TRUE)

coverageTable == CoverageTable({}, FALSE)

coverageOf(radar, terrain, rays) ==
    LET i == CHOOSE i \in 1..Len(coverageTable) :
                 coverageTable[i].key = <<radar, terrain, rays>>
    IN  coverageTable[i].polygon

\* the loop over radars_: one generated polygon per radar, in order
GenerateAll(radars, terrain, rays) ==
    [i \in 1..Len(radars) |-> coverageOf(radars[i], terrain, rays)]

\* updateIfDirty without its final dirty_ = false
updateIfDirtyStaysDirty(l) ==
    IF ~dirty_
    THEN /\ UNCHANGED <<individualCoverages_, mergedCoverage_, dirty_, passes>>
         /\ steps' = <<>>
    ELSE LET generated  == GenerateAll(radars_, terrain_, numRays_)
             merged     == unionAll(generated)
             simplified == IF simplifyEpsilon_ > 0
                           THEN simplifyAll(merged, simplifyEpsilon_, l)
                           ELSE merged
             smoothed   == IF smoothIterations_ > 0
                           THEN smoothAll(simplified, smoothIterations_)
                           ELSE simplified
         IN  /\ individualCoverages_' = generated
             /\ mergedCoverage_' = smoothed
             /\ dirty_' = dirty_
             /\ passes' = IF passes < MaxPasses THEN passes + 1 ELSE passes
             /\ steps' = [i \in 1..Len(radars_) |-> "generate"]
                           \o <<"union">>
                           \o (IF simplifyEpsilon_ > 0 THEN <<"simplify">> ELSE <<>>)
                           \o (IF smoothIterations_ > 0 THEN <<"smooth">> ELSE <<>>)
                           \o <<"clean">>

\* updateIfDirty taking the union before the generation loop has refilled
\* individualCoverages_
updateIfDirtyUnionFirst(l) ==
    IF ~dirty_
    THEN /\ UNCHANGED <<individualCoverages_, mergedCoverage_, dirty_, passes>>
         /\ steps' = <<>>
    ELSE LET generated  == GenerateAll(radars_, terrain_, numRays_)
             merged     == unionAll(individualCoverages_)
             simplified == IF simplifyEpsilon_ > 0
                           THEN simplifyAll(merged, simplifyEpsilon_, l)
                           ELSE merged
             smoothed   == IF smoothIterations_ > 0
                           THEN smoothAll(simplified, smoothIterations_)
                           ELSE simplified
         IN  /\ individualCoverages_' = generated
             /\ mergedCoverage_' = smoothed
             /\ dirty_' = FALSE
             /\ passes' = IF passes < MaxPasses THEN passes + 1 ELSE passes
             /\ steps' = <<"union">>
                           \o [i \in 1..Len(radars_) |-> "generate"]
                           \o (IF simplifyEpsilon_ > 0 THEN <<"simplify">> ELSE <<>>)
                           \o (IF smoothIterations_ > 0 THEN <<"smooth">> ELSE <<>>)
                           \o <<"clean">>

\* the statements of updateIfDirty after the early return, in program order;
\* every statement appends its name to the steps of the call
updateIfDirty(l) ==
    IF ~dirty_
    THEN /\ UNCHANGED <<individualCoverages_, mergedCoverage_, dirty_, passes>>
         /\ steps' = <<>>
    ELSE LET generated  == GenerateAll(radars_, terrain_, numRays_)
             merged     == unionAll(generated)
             simplified == IF simplifyEpsilon_ > 0
                           THEN simplifyAll(merged, simplifyEpsilon_, l)
                           ELSE merged
             smoothed   == IF smoothIterations_ > 0
                           THEN smoothAll(simplified, smoothIterations_)
                           ELSE simplified
         IN  /\ individualCoverages_' = generated
             /\ mergedCoverage_' = smoothed
             /\ dirty_' = FALSE
             /\ passes' = IF passes < MaxPasses THEN passes + 1 ELSE passes
             /\ steps' = [i \in 1..Len(radars_) |-> "generate"]
                           \o <<"union">>
                           \o (IF simplifyEpsilon_ > 0 THEN <<"simplify">> ELSE <<>>)
                           \o (IF smoothIterations_ > 0 THEN <<"smooth">> ELSE <<>>)
                           \o <<"clean">>

\* SimplifyPaths is consulted only by a pass that reaches simplifyAll
Reductions ==
    IF dirty_ /\ simplifyEpsilon_ > 0 THEN ManagerReductions ELSE {NoLib}

\* ---- accessors ----
getIndividualCoverages ==
    /\ \E l \in Reductions : updateIfDirty(l)
    /\ ret' = [kind |-> "individual", value |-> individualCoverages_']
    /\ UNCHANGED <<terrain_, radars_, numRays_, simplifyEpsilon_, smoothIterations_>>
    /\ UNCHANGED fnVars

getMergedCoverage ==
    /\ \E l \in Reductions : updateIfDirty(l)
    /\ ret' = [kind |-> "merged", value |-> mergedCoverage_']
    /\ UNCHANGED <<terrain_, radars_, numRays_, simplifyEpsilon_, smoothIterations_>>
    /\ UNCHANGED fnVars

getStats ==
    /\ \E l \in Reductions : updateIfDirty(l)
    /\ ret' = [kind |-> "stats", value |-> PolygonStatsCompute(mergedCoverage_')]
    /\ UNCHANGED <<terrain_, radars_, numRays_, simplifyEpsilon_, smoothIterations_>>
    /\ UNCHANGED fnVars

\* a manager whose terrain stays as constructed
Next ==
    \/ addRadar \/ updateRadar \/ removeRadar \/ clearRadars
    \/ setNumRays \/ setSimplifyEpsilon \/ setSmoothIterations \/ invalidate
    \/ getIndividualCoverages \/ getMergedCoverage \/ getStats

Spec == Init /\ [][Next]_vars

\* a manager in its default configuration whose terrain is edited through terrain()
NextTerrain ==
    \/ addObstacle \/ clearObstacles \/ setElevationFunction
    \/ addRadar \/ invalidate
    \/ getIndividualCoverages \/ getMergedCoverage \/ getStats

SpecTerrain == Init /\ [][NextTerrain]_vars

(***************************************************************************)
(* Applications of PolygonBoolean and PolygonProcessor to given inputs:    *)
(* fn is the function called (one call per behaviour), arg its arguments,  *)
(* res what it returned.                                                   *)
(***************************************************************************)
\* createSquare of the tests, for an even size
createSquare(cx, cy, size) ==
    LET half == size \div 2
    IN  << <<cx - half, cy - half>>, <<cx + half, cy - half>>,
           <<cx + half, cy + half>>, <<cx - half, cy + half>> >>

\* longest list handed to unionAll
MaxInputs == 2

PolygonChoices ==
    { createSquare(0, 0, 2), createSquare(5, 0, 2), createSquare(0, 0, 4),
      createSquare(0, 0, 8),
      Reverse(createSquare(0, 0, 2)), Reverse(createSquare(5, 0, 2)),
      << <<10, 0>>, <<14, 0>>, <<10, 4>> >>,
      << <<10, 0>>, <<12, 0>>, <<14, 0>> >>,
      << <<20, 0>>, <<22, 0>> >>,
      <<>> }

\* the engine model covers laminar input
callUnionAll ==
    /\ fn = "none"
    /\ \E polygons \in SeqsUpTo(PolygonChoices, MaxInputs) :
         /\ Laminar(polygons)
         /\ fn' = "unionAll"
         /\ arg' = polygons
         /\ res' = unionAll(polygons)
    /\ lib' = NoLib
    /\ UNCHANGED mgrVars

callUnionTwo ==
    /\ fn = "none"
    /\ \E a \in PolygonChoices, b \in PolygonChoices :
         /\ Laminar(<<a, b>>)
         /\ fn' = "unionTwo"
         /\ arg' = <<a, b>>
         /\ res' = unionTwo(a, b)
    /\ lib' = NoLib
    /\ UNCHANGED mgrVars

callIntersection ==
    /\ fn = "none"
    /\ \E a \in PolygonChoices, b \in PolygonChoices :
         /\ Laminar(<<a, b>>)
         /\ fn' = "intersection"
         /\ arg' = <<a, b>>
         /\ res' = intersection(a, b)
    /\ lib' = NoLib
    /\ UNCHANGED mgrVars

callDifference ==
    /\ fn = "none"
    /\ \E a \in PolygonChoices, b \in PolygonChoices :
         /\ Laminar(<<a, b>>)
         /\ fn' = "difference"
         /\ arg' = <<a, b>>
         /\ res' = difference(a, b)
    /\ lib' = NoLib
    /\ UNCHANGED mgrVars

callXorOp ==
    /\ fn = "none"
    /\ \E a \in PolygonChoices, b \in PolygonChoices :
         /\ Laminar(<<a, b>>)
         /\ fn' = "xorOp"
         /\ arg' = <<a, b>>
         /\ res' = xorOp(a, b)
    /\ lib' = NoLib
    /\ UNCHANGED mgrVars

NextBoolean ==
    \/ callUnionAll \/ callUnionTwo \/ callIntersection \/ callDifference \/ callXorOp

SpecBoolean == Init /\ [][NextBoolean]_vars

(***************************************************************************)
(* PolygonBoolean on input with a coordinate that is not a number.  A call *)
(* either returns a MultiPolygon or leaves by an exception: res is         *)
(* [thrown, value], thrown = "none" for a call that returns.  The          *)
(* single-input path of unionAll is the one that never enters the clipping *)
(* library, so its outcome is fixed by the code of this repository.        *)
(***************************************************************************)
\* largest finite coordinate of these inputs
MaxCoordinate == 2

\* triangles whose first vertex has x = NaN
NonFiniteChoices ==
    { << <<NaN, y1>>, <<x2, y2>>, <<x3, y3>> >> :
        y1 \in 0..MaxCoordinate,
        x2 \in 0..MaxCoordinate, y2 \in 0..MaxCoordinate,
        x3 \in 0..MaxCoordinate, y3 \in 0..MaxCoordinate }

\* unionAll has no throw statement and its single-input path calls nothing
\* that throws
callUnionAllNonFinite ==
    /\ fn = "none"
    /\ \E poly \in NonFiniteChoices :
         /\ fn' = "unionAll"
         /\ arg' = <<poly>>
         /\ res' = [thrown |-> "none", value |-> unionAll(<<poly>>)]
    /\ lib' = NoLib
    /\ UNCHANGED mgrVars

NextNonFinite == callUnionAllNonFinite

SpecNonFinite == Init /\ [][NextNonFinite]_vars

(***************************************************************************)
(* classifyResult on the flat contour lists a clipping operation returns:  *)
(* contours that neither cross nor overlap, outer ones counter-clockwise   *)
(* and holes clockwise.  res is [flagged, value]: classifyResult has no    *)
(* statement that throws, logs or sets a status, so no call flags anything.*)
(***************************************************************************)
\* longest contour list
MaxContours == 4

\* four nested squares (outer, hole, island, hole of the island), a square
\* apart from them and a clockwise square inside none of the others
ContourChoices ==
    { createSquare(0, 0, 16), Reverse(createSquare(0, 0, 12)),
      createSquare(0, 0, 8), Reverse(createSquare(0, 0, 4)),
      createSquare(20, 0, 4), Reverse(createSquare(40, 0, 2)) }

ContourLists ==
    { l \in SeqsUpTo(ContourChoices, MaxContours) :
        \A i, k \in 1..Len(l) : i # k => l[i] # l[k] }

callClassifyResult ==
    /\ fn = "none"
    /\ \E paths \in ContourLists :
         /\ fn' = "classifyResult"
         /\ arg' = <<paths>>
         /\ res' = [flagged |-> FALSE, value |-> classifyResult(paths)]
    /\ lib' = NoLib
    /\ UNCHANGED mgrVars

NextClassify == callClassifyResult

SpecClassify == Init /\ [][NextClassify]_vars

\* largest iteration count handed to smooth
MaxIterations == 2

\* vertex positions SimplifyPaths can keep
MaxVertices == 4

\* polygons on a grid that keeps MaxIterations passes of 0.25 / 0.75 exact
ScaleBy(poly, s) == [i \in 1..Len(poly) |-> PtScale(poly[i], s)]

ProcessorChoices ==
    { ScaleBy(p, 4 ^ MaxIterations) :
        p \in { createSquare(0, 0, 2),
                Reverse(createSquare(5, 0, 2)),
                << <<0, 0>>, <<4, 0>>, <<0, 3>> >>,
                << <<0, 0>>, <<1, 0>>, <<2, 0>> >>,
                << <<0, 0>>, <<3, 1>> >>,
                << <<7, 7>> >>,
                <<>> } }

callSmooth ==
    /\ fn = "none"
    /\ \E poly \in ProcessorChoices, iterations \in -1..MaxIterations :
         /\ fn' = "smooth"
         /\ arg' = <<poly, iterations>>
         /\ res' = smooth(poly, iterations)
    /\ lib' = NoLib
    /\ UNCHANGED mgrVars

\* SimplifyPaths may return no path, or any selection of the vertices
LibraryReductions ==
    {NoLib} \cup {[none |-> FALSE, keep |-> k] : k \in SUBSET (1..MaxVertices)}

callSimplify ==
    /\ fn = "none"
    /\ \E poly \in ProcessorChoices, epsilon \in {-1, 0, 5}, l \in LibraryReductions :
         /\ fn' = "simplify"
         /\ arg' = <<poly, epsilon>>
         /\ lib' = l
         /\ res' = simplify(poly, epsilon, l)
    /\ UNCHANGED mgrVars

NextProcessor == callSmooth \/ callSimplify

SpecProcessor == Init /\ [][NextProcessor]_vars

\* ---- calls of PolygonUtils ----
UtilsChoices ==
    PolygonChoices \cup
    { << <<0, 0>>, <<3, 0>> >>, << <<1, 1>>, <<1, 1>> >>, << <<7, 7>> >>,
      << <<0, 0>>, <<4, 0>>, <<4, 3>> >>, << <<0, 0>>, <<4, 3>>, <<4, 0>> >>,
      Reverse(createSquare(0, 0, 8)) }

PointChoices == { <<0, 0>>, <<5, 0>>, <<3, 3>>, <<2, 1>>, <<11, 1>> }

callSignedArea ==
    /\ fn = "none"
    /\ \E poly \in UtilsChoices :
         /\ fn' = "signedArea"
         /\ arg' = <<poly>>
         /\ res' = [number |-> signedArea(poly)]
    /\ lib' = NoLib
    /\ UNCHANGED mgrVars

callArea ==
    /\ fn = "none"
    /\ \E poly \in UtilsChoices :
         /\ fn' = "area"
         /\ arg' = <<poly>>
         /\ res' = [number |-> area(poly)]
    /\ lib' = NoLib
    /\ UNCHANGED mgrVars

callPerimeter ==
    /\ fn = "none"
    /\ \E poly \in UtilsChoices :
         /\ fn' = "perimeter"
         /\ arg' = <<poly>>
         /\ res' = [number |-> perimeter(poly)]
    /\ lib' = NoLib
    /\ UNCHANGED mgrVars

callIsCounterClockwise ==
    /\ fn = "none"
    /\ \E poly \in UtilsChoices :
         /\ fn' = "isCounterClockwise"
         /\ arg' = <<poly>>
         /\ res' = [flag |-> isCounterClockwise(poly)]
    /\ lib' = NoLib
    /\ UNCHANGED mgrVars

callEnsureOrientation ==
    /\ fn = "none"
    /\ \E poly \in UtilsChoices, ccw \in BOOLEAN :
         /\ fn' = "ensureOrientation"
         /\ arg' = <<poly, ccw>>
         /\ res' = [polygon |-> ensureOrientation(poly, ccw)]
    /\ lib' = NoLib
    /\ UNCHANGED mgrVars

callPointInPolygon ==
    /\ fn = "none"
    /\ \E pt \in PointChoices, poly \in UtilsChoices :
         /\ fn' = "pointInPolygon"
         /\ arg' = <<pt, poly>>
         /\ res' = [flag |-> pointInPolygon(pt, poly)]
    /\ lib' = NoLib
    /\ UNCHANGED mgrVars

NextUtils ==
    \/ callSignedArea \/ callArea \/ callPerimeter
    \/ callIsCounterClockwise \/ callEnsureOrientation \/ callPointInPolygon

SpecUtils == Init /\ [][NextUtils]_vars

\* ---- PolygonStats::compute called directly and through getStats ----
MultiPolygonChoices ==
    { <<>>,
      << [outer |-> createSquare(0, 0, 4), holes |-> <<>>] >>,
      << [outer |-> createSquare(0, 0, 8), holes |-> <<createSquare(0, 0, 2)>>] >>,
      << [outer |-> createSquare(0, 0, 8),
          holes |-> <<createSquare(-2, 0, 2), createSquare(2, 0, 2)>>] >>,
      << [outer |-> createSquare(0, 0, 8), holes |-> <<createSquare(0, 0, 2)>>],
         [outer |-> << <<10, 0>>, <<14, 0>>, <<14, 3>> >>, holes |-> <<>>] >>,
      << [outer |-> createSquare(20, 0, 8),
          holes |-> <<createSquare(18, 0, 2), createSquare(22, 0, 2)>>],
         [outer |-> createSquare(0, 0, 4), holes |-> <<createSquare(0, 0, 2)>>] >>,
      << [outer |-> << <<0, 0>>, <<3, 0>> >>, holes |-> <<>>] >>,
      << [outer |-> <<>>, holes |-> <<>>] >> }

callStatsCompute ==
    /\ fn = "none"
    /\ \E mp \in MultiPolygonChoices :
         /\ fn' = "compute"
         /\ arg' = <<mp>>
         /\ res' = PolygonStatsCompute(mp)
    /\ lib' = NoLib
    /\ UNCHANGED mgrVars

NextStats ==
    \/ callStatsCompute
    \/ addRadar \/ getMergedCoverage \/ getStats

SpecStats == Init /\ [][NextStats]_vars

(***************************************************************************)
(* simplifyAll and smoothAll on whole MultiPolygons, on the grid that      *)
(* keeps MaxIterations corner-cutting passes exact                         *)
(***************************************************************************)
ScaleAll(mp, s) ==
    [i \in 1..Len(mp) |->
        [outer |-> ScaleBy(mp[i].outer, s),
         holes |-> [h \in 1..Len(mp[i].holes) |-> ScaleBy(mp[i].holes[h], s)]]]

PostProcessChoices == { ScaleAll(mp, 4 ^ MaxIterations) : mp \in MultiPolygonChoices }

callSimplifyAll ==
    /\ fn = "none"
    /\ \E mp \in PostProcessChoices, epsilon \in {-1, 0, 5}, l \in LibraryReductions :
         /\ fn' = "simplifyAll"
         /\ arg' = <<mp, epsilon>>
         /\ lib' = l
         /\ res' = [multi |-> simplifyAll(mp, epsilon, l)]
    /\ UNCHANGED mgrVars

callSmoothAll ==
    /\ fn = "none"
    /\ \E mp \in PostProcessChoices, iterations \in -1..MaxIterations :
         /\ fn' = "smoothAll"
         /\ arg' = <<mp, iterations>>
         /\ res' = [multi |-> smoothAll(mp, iterations)]
    /\ lib' = NoLib
    /\ UNCHANGED mgrVars

NextPostProcess == callSimplifyAll \/ callSmoothAll

SpecPostProcess == Init /\ [][NextPostProcess]_vars

\* ---- calls of generateCoveragePolygon and of the TerrainModel queries ----
SensorChoices ==
    RadarChoices \cup
    { [id |-> 3, position |-> <<0, 0>>, range |-> 1024, height |-> 10,
       azimuthStart |-> 0, azimuthEnd |-> 2],
      [id |-> 4, position |-> <<128, 0>>, range |-> 512, height |-> 10,
       azimuthStart |-> 1, azimuthEnd |-> 5],
      [id |-> 5, position |-> <<0, -512>>, range |-> 1024, height |-> 10,
       azimuthStart |-> 1, azimuthEnd |-> 2] }

RayCountChoices == {0, 1, 2, 4, 8, DefaultNumRays}

\* 1, 2 and 3 are ranges at the finest grid of the doubles
MaxRangeChoices == {-8, 0, 1, 2, 3, 512, 1024}

SampleCountChoices == {1, 2, 4, DefaultSamples}

\* the terrains of the manager and one with a narrow obstacle close to the
\* observer, which the samples of a long line of sight step over
SearchTerrains ==
    Terrains \cup
    { [obstacles |-> << [center |-> <<19, 0>>, rx |-> 6, ry |-> 6, height |-> 1000] >>,
       custom_elevation |-> "none"] }

callGenerateCoveragePolygon ==
    /\ fn = "none"
    /\ \E radar \in SensorChoices, terrain \in Terrains, rays \in RayCountChoices :
         /\ fn' = "generateCoveragePolygon"
         /\ arg' = <<radar, terrain, rays>>
         /\ res' = [polygon |-> generateCoveragePolygon(radar, terrain, rays)]
    /\ lib' = NoLib
    /\ UNCHANGED mgrVars

callComputeMaxVisibleRange ==
    /\ fn = "none"
    /\ \E terrain \in SearchTerrains, azimuth \in 0..3, maxRange \in MaxRangeChoices :
         /\ fn' = "computeMaxVisibleRange"
         /\ arg' = <<terrain, <<0, 0>>, 10, azimuth, maxRange, 0>>
         /\ res' = computeMaxVisibleRangeRun(terrain, <<0, 0>>, 10, azimuth, maxRange, 0)
    /\ lib' = NoLib
    /\ UNCHANGED mgrVars

callIsLineOfSightBlocked ==
    /\ fn = "none"
    /\ \E terrain \in Terrains, targetPos \in {<<0, 0>>, <<1024, 0>>, <<0, 1024>>, <<256, 0>>},
          targetHeight \in {0, 2000}, numSamples \in SampleCountChoices :
         /\ fn' = "isLineOfSightBlocked"
         /\ arg' = <<terrain, <<0, 0>>, 10, targetPos, targetHeight, numSamples>>
         /\ res' = isLineOfSightBlockedRun(terrain, <<0, 0>>, 10, targetPos, targetHeight,
                                           numSamples)
    /\ lib' = NoLib
    /\ UNCHANGED mgrVars

NextCoverage ==
    \/ callGenerateCoveragePolygon
    \/ callComputeMaxVisibleRange
    \/ callIsLineOfSightBlocked

SpecCoverage == Init /\ [][NextCoverage]_vars

(***************************************************************************)
(* Properties of CoverageMergeManager                                      *)
(***************************************************************************)
Mutator ==
    \/ addRadar \/ updateRadar \/ removeRadar \/ clearRadars
    \/ setNumRays \/ setSimplifyEpsilon \/ setSmoothIterations \/ invalidate

Accessor == getIndividualCoverages \/ getMergedCoverage \/ getStats

\* the merged coverages the pipeline can produce from these sensors and this
\* configuration (one for every behaviour of SimplifyPaths)
MergedResults(radars, terrain, rays, epsilon, iterations) ==
    { LET merged     == unionAll(GenerateAll(radars, terrain, rays))
          simplified == IF epsilon > 0 THEN simplifyAll(merged, epsilon, l) ELSE merged
      IN  IF iterations > 0 THEN smoothAll(simplified, iterations) ELSE simplified
      : l \in ManagerReductions }

\* the value an accessor of this kind returns from these caches
Returned(kind, individual, merged) ==
    CASE kind = "individual" -> individual
      [] kind = "merged"     -> merged
      [] kind = "stats"      -> PolygonStatsCompute(merged)

\* C1: whatever addRadar, updateRadar, removeRadar, clearRadars, setNumRays,
\* setSimplifyEpsilon, setSmoothIterations and invalidate calls came before
\* it, a read returns the pipeline result for the sensors and configuration
\* as they are when it returns, never one of an earlier sensor set or
\* configuration.
C1_ReadReturnsCurrentPipelineResult ==
    ret # NoRet =>
        /\ individualCoverages_ = GenerateAll(radars_, terrain_, numRays_)
        /\ mergedCoverage_ \in MergedResults(radars_, terrain_, numRays_,
                                             simplifyEpsilon_, smoothIterations_)
        /\ ret.value = Returned(ret.kind, individualCoverages_, mergedCoverage_)

\* a read of two sensors after the ray count and epsilon were changed
C1_Witness ==
    /\ ret # NoRet
    /\ ret.kind = "merged"
    /\ Len(radars_) = 2
    /\ numRays_ # DefaultNumRays
    /\ simplifyEpsilon_ # DefaultSimplifyEpsilon
    /\ Len(ret.value) = 2

\* C2: after the terrain was edited through terrain() (addObstacle,
\* clearObstacles, setElevationFunction), the next read is recomputed
\* against the changed terrain: what a read leaves in the cache of
\* individual coverages is the coverage of every sensor over the terrain as
\* it is.
C2_ReadFollowsTerrain ==
    ret # NoRet => individualCoverages_ = GenerateAll(radars_, terrain_, numRays_)

\* C3: a mutator never recomputes: it executes no pipeline statement, leaves
\* both caches and the terrain as they were, and changes only the sensor
\* list or the configuration and the dirty flag.
C3_MutatorsDoNotRecompute ==
    [][Mutator =>
        /\ steps' = <<>>
        /\ individualCoverages_' = individualCoverages_
        /\ mergedCoverage_' = mergedCoverage_
        /\ terrain_' = terrain_]_vars

\* a mutator has run on a manager whose caches were filled and are now stale
C3_Witness ==
    /\ ret = NoRet
    /\ dirty_
    /\ Len(individualCoverages_) = 2
    /\ Len(radars_) = 1
    /\ mergedCoverage_ # <<>>

\* C4: between two mutations the pipeline runs at most once: an accessor
\* called on a dirty manager recomputes and clears the flag, an accessor
\* called on a clean one executes no pipeline statement, leaves the caches
\* alone and returns the cached value, the same as the read before it.
C4_PipelineRunsOncePerMutation ==
    [][/\ passes' <= 1
       /\ Accessor =>
            /\ ~dirty_'
            /\ dirty_ => steps' # <<>> /\ passes' = 1
            /\ ~dirty_ =>
                 /\ steps' = <<>>
                 /\ individualCoverages_' = individualCoverages_
                 /\ mergedCoverage_' = mergedCoverage_
                 /\ ret'.value = Returned(ret'.kind, individualCoverages_, mergedCoverage_)
                 /\ (ret # NoRet /\ ret.kind = ret'.kind) => ret' = ret]_vars

\* a second read of a clean manager holding a merged coverage of two regions
C4_Witness ==
    /\ ret # NoRet
    /\ steps = <<>>
    /\ ~dirty_
    /\ passes = 1
    /\ Len(mergedCoverage_) = 2

\* C5: a recomputation pass generates the coverage of every sensor, then
\* unions them, then simplifies (only when epsilon > 0), then smooths (only
\* when iterations > 0), then clears the dirty flag; the union takes exactly
\* one polygon per sensor, in sensor order.
C5_PassOrder ==
    steps # <<>> =>
        /\ steps = [i \in 1..Len(radars_) |-> "generate"]
                     \o <<"union">>
                     \o (IF simplifyEpsilon_ > 0 THEN <<"simplify">> ELSE <<>>)
                     \o (IF smoothIterations_ > 0 THEN <<"smooth">> ELSE <<>>)
                     \o <<"clean">>
        /\ ~dirty_
        /\ Len(individualCoverages_) = Len(radars_)
        /\ \A i \in 1..Len(radars_) :
              individualCoverages_[i] = coverageOf(radars_[i], terrain_, numRays_)
        /\ \E l \in ManagerReductions :
              LET merged     == unionAll(individualCoverages_)
                  simplified == IF simplifyEpsilon_ > 0
                                THEN simplifyAll(merged, simplifyEpsilon_, l)
                                ELSE merged
              IN  mergedCoverage_ = IF smoothIterations_ > 0
                                    THEN smoothAll(simplified, smoothIterations_)
                                    ELSE simplified

\* a pass over two different sensors that simplified and smoothed
C5_Witness ==
    /\ steps = <<"generate", "generate", "union", "simplify", "smooth", "clean">>
    /\ radars_[1] # radars_[2]

(***************************************************************************)
(* Properties of PolygonBoolean                                            *)
(***************************************************************************)
\* a polygon of at least 3 vertices and non-zero area none of whose edges
\* meets an edge that is not its neighbour
SimplePolygon(p) ==
    /\ Len(p) >= 3
    /\ signedArea(p) # 0
    /\ \A i, k \in 1..Len(p) :
          (i < k /\ k # i + 1 /\ ~(i = 1 /\ k = Len(p)))
          => ~SegmentsMeet(p[i], p[(i % Len(p)) + 1], p[k], p[(k % Len(p)) + 1])

OuterAreas(mp) == SumSeq([i \in 1..Len(mp) |-> area(mp[i].outer)])

NoHoles(mp) == \A i \in 1..Len(mp) : mp[i].holes = <<>>

\* C6: unionAll of exactly one polygon returns one region without holes
\* whose outer boundary is that polygon, in the same or exactly reversed
\* vertex order, oriented counter-clockwise; unionAll of a polygon with
\* itself returns the same shape (one counter-clockwise region over the same
\* vertices with the same area, nothing for a polygon that encloses
\* nothing); unionAll of an empty list returns an empty MultiPolygon.
C6_UnionAllOfOnePolygon ==
    /\ (fn = "unionAll" /\ arg = <<>>) => res = <<>>
    /\ (fn = "unionAll" /\ Len(arg) = 1) =>
          /\ Len(res) = 1
          /\ res[1].holes = <<>>
          /\ res[1].outer \in {arg[1], Reverse(arg[1])}
          /\ signedArea(res[1].outer) = area(arg[1])
    /\ (fn \in {"unionAll", "unionTwo"} /\ Len(arg) = 2 /\ arg[1] = arg[2]) =>
          IF SimplePolygon(arg[1])
          THEN /\ Len(res) = 1
               /\ res[1].holes = <<>>
               /\ Range(res[1].outer) = Range(arg[1])
               /\ signedArea(res[1].outer) = area(arg[1])
          ELSE OuterAreas(res) = area(arg[1])

\* unionAll was given one clockwise square and returned it reversed
C6_Witness ==
    /\ fn = "unionAll"
    /\ Len(arg) = 1
    /\ signedArea(arg[1]) < 0
    /\ Len(res) = 1
    /\ res[1].outer = Reverse(arg[1])
    /\ res[1].outer # arg[1]

\* neither polygon touches or contains the other
DisjointPolygons(p, q) ==
    /\ ~CurvesMeet(p, q)
    /\ ~pointInPolygon(p[1], q)
    /\ ~pointInPolygon(q[1], p)

\* C7: unionAll of two disjoint simple polygons returns exactly two regions,
\* each without holes, whose outer areas sum to the sum of the two input
\* areas; for the side-2 squares centred at (0,0) and (5,0) that is two
\* regions of total area 8.
C7_UnionOfDisjointPolygons ==
    (/\ fn \in {"unionAll", "unionTwo"}
     /\ Len(arg) = 2
     /\ SimplePolygon(arg[1])
     /\ SimplePolygon(arg[2])
     /\ DisjointPolygons(arg[1], arg[2]))
    => /\ Len(res) = 2
       /\ NoHoles(res)
       /\ OuterAreas(res) = area(arg[1]) + area(arg[2])
       /\ (arg = <<createSquare(0, 0, 2), createSquare(5, 0, 2)>>) => OuterAreas(res) = 8

\* the two squares of the test were united
C7_Witness ==
    /\ fn = "unionAll"
    /\ arg = <<createSquare(0, 0, 2), createSquare(5, 0, 2)>>
    /\ Len(res) = 2
    /\ OuterAreas(res) = 8

\* q lies strictly inside p
StrictlyInside(q, p) ==
    /\ ~CurvesMeet(p, q)
    /\ pointInPolygon(q[1], p)

\* C8: difference(a, b), b a simple polygon strictly inside the simple
\* polygon a, returns exactly one region with exactly one hole, and outer
\* area minus hole area is area(a) - area(b); 12 for the side-4 square minus
\* the concentric side-2 square.
C8_DifferenceWithInnerPolygon ==
    (/\ fn = "difference"
     /\ SimplePolygon(arg[1])
     /\ SimplePolygon(arg[2])
     /\ StrictlyInside(arg[2], arg[1]))
    => /\ Len(res) = 1
       /\ Len(res[1].holes) = 1
       /\ area(res[1].outer) - area(res[1].holes[1]) = area(arg[1]) - area(arg[2])
       /\ (arg = <<createSquare(0, 0, 4), createSquare(0, 0, 2)>>) =>
             area(res[1].outer) - area(res[1].holes[1]) = 12

\* the squares of the test were subtracted
C8_Witness ==
    /\ fn = "difference"
    /\ arg = <<createSquare(0, 0, 4), createSquare(0, 0, 2)>>
    /\ Len(res) = 1
    /\ Len(res[1].holes) = 1
    /\ area(res[1].outer) = 16
    /\ area(res[1].holes[1]) = 4

(***************************************************************************)
(* Properties of PolygonProcessor                                          *)
(***************************************************************************)
\* next holds, for every edge (p0, p1) of prev in edge order, the point a
\* quarter of the way from p0 to p1 and then the point three quarters of the way
QuarterPoints(prev, next) ==
    /\ Len(next) = 2 * Len(prev)
    /\ \A i \in 1..Len(prev) :
          LET p0 == prev[i]
              p1 == prev[(i % Len(prev)) + 1]
          IN  /\ PtScale(next[2 * i - 1], 4) = PtAdd(PtScale(p0, 3), p1)
              /\ PtScale(next[2 * i], 4) = PtAdd(p0, PtScale(p1, 3))

\* C9: smooth(polygon, k) of a polygon of n >= 3 vertices has n * 2^k
\* vertices, and iteration k replaces every edge of the result of k - 1
\* iterations by its 25% and 75% points in edge order; for k <= 0 or n < 3
\* the input comes back unchanged.
C9_SmoothDoublesVertices ==
    fn = "smooth" =>
        LET poly == arg[1]
            k    == arg[2]
        IN  IF Len(poly) < 3 \/ k <= 0
            THEN res = poly
            ELSE /\ Len(res) = Len(poly) * 2 ^ k
                 /\ QuarterPoints(smooth(poly, k - 1), res)

\* two iterations turned the 4 vertices of a square into 16
C9_Witness ==
    /\ fn = "smooth"
    /\ Len(arg[1]) = 4
    /\ arg[2] = 2
    /\ Len(res) = 16

\* C10: simplify never returns fewer than 3 vertices for an input of at
\* least 3: when the reduction yields no path or a path of fewer than 3
\* vertices the original polygon comes back unchanged, as it does when
\* epsilon <= 0 or the input has fewer than 3 vertices.
C10_SimplifyKeepsAPolygon ==
    fn = "simplify" =>
        LET poly    == arg[1]
            epsilon == arg[2]
            reduced == SimplifyPaths(<<poly>>, epsilon, lib)
        IN  /\ Len(poly) >= 3 => Len(res) >= 3
            /\ (Len(poly) < 3 \/ epsilon <= 0) => res = poly
            /\ (reduced = <<>> \/ Len(reduced[1]) < 3) => res = poly
            /\ (Len(poly) >= 3 /\ epsilon > 0 /\ reduced # <<>> /\ Len(reduced[1]) >= 3)
                  => res = reduced[1]

\* the reduction left 2 of 4 vertices and the square came back
C10_Witness ==
    /\ fn = "simplify"
    /\ Len(arg[1]) = 4
    /\ arg[2] > 0
    /\ ~lib.none
    /\ Cardinality(lib.keep) = 2
    /\ res = arg[1]

(***************************************************************************)
(* Properties of PolygonUtils                                              *)
(***************************************************************************)
\* C11: a polygon of fewer than 3 points is treated as empty by the area and
\* perimeter operations: signedArea, area and perimeter each return 0 for it,
\* a polygon of exactly 2 distinct points included.
C11_DegeneratePolygonsAreEmpty ==
    (fn \in {"signedArea", "area", "perimeter"} /\ Len(arg[1]) < 3) => res.number = 0

\* C12: ensureOrientation(polygon, wantCCW) returns the input unchanged when
\* the polygon's orientation (positive signed area: counter-clockwise) is
\* the wanted one and exactly the reversed sequence otherwise; for a polygon
\* of non-zero signed area the result has the wanted orientation and a
\* second application changes nothing.
C12_EnsureOrientation ==
    fn = "ensureOrientation" =>
        LET poly    == arg[1]
            wantCCW == arg[2]
        IN  /\ res.polygon = IF (signedArea(poly) > 0) = wantCCW THEN poly ELSE Reverse(poly)
            /\ Len(res.polygon) = Len(poly)
            /\ \A i \in 1..Len(poly) : res.polygon[i] = poly[i] \/ res.polygon[i] = poly[Len(poly) + 1 - i]
            /\ signedArea(poly) # 0 =>
                  /\ (signedArea(res.polygon) > 0) = wantCCW
                  /\ ensureOrientation(res.polygon, wantCCW) = res.polygon

\* a clockwise triangle was asked to be counter-clockwise and came back reversed
C12_Witness ==
    /\ fn = "ensureOrientation"
    /\ arg[2] = TRUE
    /\ signedArea(arg[1]) < 0
    /\ res.polygon = Reverse(arg[1])
    /\ res.polygon # arg[1]
    /\ signedArea(res.polygon) > 0

(***************************************************************************)
(* Properties of PolygonStats                                              *)
(***************************************************************************)
\* every hole of every region, region by region
AllHoles(mp) == Concat([i \in 1..Len(mp) |-> mp[i].holes])

\* the four aggregates of a MultiPolygon
StatsAre(stats, mp) ==
    LET holes == AllHoles(mp)
    IN  /\ stats.regionCount = Len(mp)
        /\ stats.totalHoleCount = Len(holes)
        /\ stats.totalArea =
              OuterAreas(mp) - SumSeq([h \in 1..Len(holes) |-> area(holes[h])])
        /\ stats.totalPerimeter =
              SumSeq([i \in 1..Len(mp) |-> perimeter(mp[i].outer)])
              + SumSeq([h \in 1..Len(holes) |-> perimeter(holes[h])])

\* C13: PolygonStats::compute(mp) returns the number of regions, the number
\* of holes over all regions, the sum of the outer areas minus the hole
\* areas and the sum of the perimeters of all outer boundaries and holes;
\* getStats returns these aggregates of the merged coverage that
\* getMergedCoverage returns.
C13_StatsAggregates ==
    /\ fn = "compute" => StatsAre(res, arg[1])
    /\ (ret # NoRet /\ ret.kind = "stats") =>
          /\ ~dirty_
          /\ StatsAre(ret.value, mergedCoverage_)

\* compute was given two regions with three holes, and getStats was called
\* on a manager of two sensors
C13_Witness ==
    /\ fn = "compute"
    /\ res.regionCount = 2
    /\ res.totalHoleCount = 3
    /\ res.totalArea = 64 - 8 + 16 - 4
    /\ ret # NoRet
    /\ ret.kind = "stats"
    /\ ret.value.regionCount = 2

C15_NonFiniteInputFails ==
    (fn = "unionAll" /\ \E i \in 1..Len(arg) : HasNaN(arg[i]))
        => res.thrown = "GeometryError"

\* C16: in every region returned by a boolean-engine operation, the
\* single-input path of unionAll included, the outer boundary is stored
\* counter-clockwise: it has strictly positive signed area.
C16_OutersAreCounterClockwise ==
    fn \in {"unionAll", "unionTwo", "intersection", "difference", "xorOp"} =>
        \A i \in 1..Len(res) : signedArea(res[i].outer) > 0

\* the regions of mp that store the contour c, reversed, as a hole
RegionsHolding(mp, c) ==
    { k \in 1..Len(mp) : \E m \in 1..Len(mp[k].holes) : mp[k].holes[m] = Reverse(c) }

\* the contour's test vertex lies inside no counter-clockwise contour of paths
Orphan(paths, c) ==
    \A i \in 1..Len(paths) :
        signedArea(paths[i]) > 0 => ~pointInPolygon(c[1], paths[i])

\* the number of other contours of paths around the contour's test vertex
Depth(paths, c) ==
    Cardinality({ i \in 1..Len(paths) : paths[i] # c /\ pointInPolygon(c[1], paths[i]) })

\* a contour list as a clipping operation returns it: a contour inside an
\* even number of others is counter-clockwise, one inside an odd number is
\* clockwise
WellNested(paths) ==
    \A i \in 1..Len(paths) :
        (signedArea(paths[i]) > 0) = (Depth(paths, paths[i]) % 2 = 0)

\* C17: classifyResult assigns every hole contour (negative signed area) of
\* the flat contour list of a clipping operation to exactly one outer
\* boundary: each hole is in the hole list of exactly one region, also when
\* outer boundaries are nested (a region inside a hole of another region
\* with a hole of its own).
C17_HoleHasOneRegion ==
    (fn = "classifyResult" /\ WellNested(arg[1])) =>
        \A h \in 1..Len(arg[1]) :
            signedArea(arg[1][h]) < 0
                => Cardinality(RegionsHolding(res.value, arg[1][h])) = 1

\* C18: when a hole contour's test vertex lies inside no outer boundary (the
\* list may have no outer boundary at all), classifyResult flags the
\* inconsistency; the hole is not silently dropped from the result.
C18_OrphanHoleIsFlagged ==
    fn = "classifyResult" =>
        \A h \in 1..Len(arg[1]) :
            (signedArea(arg[1][h]) < 0 /\ Orphan(arg[1], arg[1][h]))
                => \/ res.flagged
                   \/ RegionsHolding(res.value, arg[1][h]) # {}

C20_RangeSearchTerminates ==
    fn = "computeMaxVisibleRange" =>
        /\ res.returns
        /\ res.halvings = IF arg[5] > 0 THEN 7 ELSE 0

\* the line of sight of the call in arg to the point at range d on its ray
BlockedAt(d) ==
    isLineOfSightBlocked(arg[1], arg[2], arg[3],
                         PtAdd(arg[2], PtScale(Direction(arg[4]), d)),
                         arg[6], DefaultSamples)

\* the ranges 0, maxRange / 128, ..., maxRange
ProbeRanges(maxRange) ==
    IF maxRange <= 0 THEN {0} ELSE { (k * maxRange) \div 128 : k \in 0..128 }

\* C21: the range computeMaxVisibleRange returns is 0 or a range at which
\* isLineOfSightBlocked returned false, so it never exceeds the greatest
\* range with an unblocked line of sight, also where visibility along the ray
\* is not monotonic in the range.
C21_ReturnedRangeIsVisible ==
    (fn = "computeMaxVisibleRange" /\ res.returns) =>
        /\ res.range = 0 \/ ~BlockedAt(res.range)
        /\ \E d \in ProbeRanges(arg[5]) \cup {res.range} :
              d >= res.range /\ ~BlockedAt(d)

\* visibility is not monotonic: the line of sight to a quarter of maxRange
\* is blocked by the obstacle, the search went past it and returned a
\* visible range beyond
C21_Witness ==
    /\ fn = "computeMaxVisibleRange"
    /\ res.returns
    /\ arg[1].obstacles # <<>>
    /\ BlockedAt(arg[5] \div 4)
    /\ res.range > arg[5] \div 4
    /\ ~BlockedAt(res.range)

\* sample i of the call in arg: the terrain at radarPos + step * i is
\* above the line of sight there
SampleAbove(i) ==
    SampleBlocked(getElevation(arg[1],
                               PtAdd(PtScale(arg[2], arg[6]),
                                     PtScale(PtSub(arg[4], arg[2]), i)),
                               arg[6]),
                  arg[3], arg[5], length(PtSub(arg[4], arg[2])), i, arg[6])

\* C22: isLineOfSightBlocked with sample count N tests exactly N points
\* strictly between observer and target and returns true iff the terrain at
\* one of them is above the line of sight; when observer and target
\* coincide it returns false without sampling.
C22_SamplesInteriorPoints ==
    fn = "isLineOfSightBlocked" =>
        IF arg[4] = arg[2]
        THEN ~res.flag /\ res.tested = 0
        ELSE /\ res.flag = (\E i \in 1..(arg[6] - 1) : SampleAbove(i))
             /\ ~res.flag => res.tested = arg[6]

\* what the operation of the call in fn makes of one polygon
Processed(poly) ==
    IF fn = "simplifyAll" THEN simplify(poly, arg[2], lib) ELSE smooth(poly, arg[2])

\* C23: simplifyAll and smoothAll process the outer boundary and every hole
\* of every region on its own and keep the structure of the MultiPolygon:
\* the same number of regions in the same order, and in each region the
\* same number of holes in the same order; nothing is dropped or merged.
C23_PostProcessingKeepsStructure ==
    fn \in {"simplifyAll", "smoothAll"} =>
        /\ Len(res.multi) = Len(arg[1])
        /\ \A i \in 1..Len(arg[1]) :
              /\ res.multi[i].outer = Processed(arg[1][i].outer)
              /\ Len(res.multi[i].holes) = Len(arg[1][i].holes)
              /\ \A h \in 1..Len(arg[1][i].holes) :
                    res.multi[i].holes[h] = Processed(arg[1][i].holes[h])

\* two regions with two holes and one hole were smoothed once: every
\* boundary is still there, with twice the vertices
C23_Witness ==
    /\ fn = "smoothAll"
    /\ arg[2] = 1
    /\ Len(arg[1]) = 2
    /\ Len(res.multi) = 2
    /\ Len(res.multi[1].holes) = 2
    /\ Len(res.multi[2].holes) = 1
    /\ Len(res.multi[1].outer) = 8
    /\ Len(res.multi[1].holes[2]) = 8
    /\ res.multi[1].holes[1] # res.multi[1].holes[2]

\* C24: updateRadar(id, params) with an id no stored sensor has changes
\* nothing: the sensor list, both caches, the configuration and the dirty
\* flag stay as they were, so a clean manager stays clean; when the id
\* matches, exactly the first sensor with that id, in insertion order, is
\* replaced by params and the dirty flag is set.
C24_UpdateRadarFrame ==
    [][\A id \in RadarIds, params \in RadarChoices :
          updateRadarWith(id, params) =>
              /\ UNCHANGED <<terrain_, individualCoverages_, mergedCoverage_, numRays_,
                             simplifyEpsilon_, smoothIterations_>>
              /\ steps' = <<>>
              /\ IF \A i \in 1..Len(radars_) : radars_[i].id # id
                 THEN UNCHANGED <<radars_, dirty_, passes>>
                 ELSE \E i \in 1..Len(radars_) :
                        /\ radars_[i].id = id
                        /\ \A k \in 1..(i - 1) : radars_[k].id # id
                        /\ radars_' = [radars_ EXCEPT ![i] = params]
                        /\ dirty_']_vars

\* a void call has left a manager with filled caches clean: only an
\* updateRadar that found no sensor does that
C24_Witness ==
    /\ ret = NoRet
    /\ ~dirty_
    /\ passes = 1
    /\ Len(radars_) = 2
    /\ Len(individualCoverages_) = 2
    /\ mergedCoverage_ # <<>>

\* C25: for maxRange > 0 computeMaxVisibleRange returns r with
\* 0 <= r < maxRange: maxRange itself is never tested and never returned,
\* and when no line of sight along the ray is blocked r falls short of
\* maxRange by the last interval width, at most 1% of maxRange.
C25_ReturnedRangeBelowMaxRange ==
    (fn = "computeMaxVisibleRange" /\ arg[5] > 0 /\ res.returns) =>
        /\ 0 <= res.range
        /\ res.range < arg[5]
        /\ (\A d \in ProbeRanges(arg[5]) : ~BlockedAt(d))
              => 100 * (arg[5] - res.range) <= arg[5]

=============================================================================
